---- MODULE Spec2Model ----
(***************************************************************************)
(* Model of test-trackers.py: the tracker probes (HTTP announce, UDP        *)
(* connect handshake), the dispatcher test_tracker, the thread-pool         *)
(* coordinator process_trackers_concurrent and the filter/sort/write tail   *)
(* of main.                                                                 *)
(*                                                                          *)
(* Strings are TLA+ strings; byte strings are sequences of 0..255.          *)
(* Response times are whole milliseconds.                                   *)
(***************************************************************************)
EXTENDS Integers, Sequences, FiniteSets, TLC

VARIABLES
    trackers,        \* main: all_trackers, the list handed to the coordinator
    max_workers,     \* configuration: MAX_WORKERS
    max_response,    \* configuration: MAX_RESPONSE_TIME_MS (None disables)
    pc,              \* position of the main thread
    submitted,       \* number of executor.submit calls done so far
    tasks,           \* per submitted tracker: its future and its probe's locals
    yielded,         \* futures as_completed has already handed out
    valid_trackers,  \* the list of (tracker, response_time) tuples
    valid_count,     \* process_trackers_concurrent: valid_count
    progress,        \* the progress task: completed count and valid field
    error_log,       \* logging.error calls made by the coordinator loop
    output           \* what main wrote: console signal, file contents and the
                     \* response time summary

vars == <<trackers, max_workers, max_response, pc, submitted, tasks, yielded,
          valid_trackers, valid_count, progress, error_log, output>>

-----------------------------------------------------------------------------
(* Bounds of the model *)

\* longest tracker list explored
MaxTrackers == 2

(* Program constants *)

\* Python's None; an optional number x is None or <<x>>
None == <<>>

\* SKIP_TRACKERS
SKIP_TRACKERS == {"udp://tracker.theoks.net:6969/announce"}

\* MAX_RESPONSE_TIME_MS as shipped
MAX_RESPONSE_TIME_MS == 750

\* connection_id = 0x41727101980, as its high and low 32-bit halves
CONNECTION_ID_HI == 1047
CONNECTION_ID_LO == 655366528

(* Inputs explored *)

\* tracker strings handed to process_trackers_concurrent: the denylisted
\* tracker, a UDP tracker, an HTTP tracker (https:// takes the same branch of
\* test_tracker), a wss:// tracker, a UDP URL without a host and one whose
\* port is no number, and a ws:// tracker, which only a caller other than
\* fetch_all_trackers supplies
Universe ==
    { "udp://tracker.theoks.net:6969/announce",
      "udp://tracker.example:1337/announce",
      "http://bad.example/announce",
      "wss://tracker.example/announce",
      "ws://tracker.example/announce",
      "udp://",
      "udp://tracker.example:x/announce" }

\* the same with the UDP tracker naming no port and the empty string in the
\* place of the ws:// tracker
UniverseOfParsing ==
    { "udp://tracker.theoks.net:6969/announce",
      "udp://tracker.example/announce",
      "http://bad.example/announce",
      "wss://tracker.example/announce",
      "",
      "udp://",
      "udp://tracker.example:x/announce" }

\* elapsed wall-clock times a probe may measure, in ms
Times == {40, 750, 751}

\* transaction ids random.randint may draw (a sample of 0..0xFFFFFFFF)
TransactionIds == {1, 16777216}

\* action codes a replying host may put in a datagram
ReplyActions == {0, 3}

\* worker-pool sizes explored (MAX_WORKERS is 50 as shipped; the sizes here
\* put the cap both below and at the length of the list)
PoolSizes == {1, 2}

\* HTTP responses a server may answer with: status code and body
Responses ==
    ({200, 404} \X {"", "d1e"}) \cup ({200} \X {"de", "abc", "d1x", "x1e"})

-----------------------------------------------------------------------------
(* Pure helpers *)

\* str.startswith / bytes.startswith
Startswith(s, p) == Len(s) >= Len(p) /\ SubSeq(s, 1, Len(p)) = p

\* bytes.endswith
Endswith(s, p) == Len(s) >= Len(p) /\ SubSeq(s, Len(s) - Len(p) + 1, Len(s)) = p

\* struct.pack('!I', n): four bytes, big-endian
Pack32(n) ==
    << (n \div 16777216) % 256, (n \div 65536) % 256, (n \div 256) % 256, n % 256 >>

\* struct.unpack('!I', b): big-endian
Unpack32(b) == ((b[1] * 256 + b[2]) * 256 + b[3]) * 256 + b[4]

\* struct.pack('!QII', connection_id, action, transaction_id)
ConnectionRequest(action, transaction_id) ==
    Pack32(CONNECTION_ID_HI) \o Pack32(CONNECTION_ID_LO)
        \o Pack32(action) \o Pack32(transaction_id)

\* struct.unpack('!IIQ', response): resp_action, resp_transaction_id
UnpackResponse(response) ==
    [ resp_action |-> Unpack32(SubSeq(response, 1, 4)),
      resp_transaction_id |-> Unpack32(SubSeq(response, 5, 8)) ]

\* a full connect reply as a well-formed tracker builds it
ConnectReply(action, transaction_id) ==
    Pack32(action) \o Pack32(transaction_id)
        \o Pack32(CONNECTION_ID_HI) \o Pack32(CONNECTION_ID_LO)

\* the datagrams the network may deliver to a probe: connect replies with
\* any action and transaction id, and a reply cut short and one with
\* trailing bytes
Datagrams ==
    { ConnectReply(a, t) : <<a, t>> \in ReplyActions \X TransactionIds }
        \cup { SubSeq(ConnectReply(0, 1), 1, 8),
               ConnectReply(0, 1) \o <<0, 0, 0, 0>> }

\* what recvfrom(16) hands back for a datagram: at most 16 bytes
Recvfrom16(datagram) ==
    IF Len(datagram) > 16 THEN SubSeq(datagram, 1, 16) ELSE datagram


-----------------------------------------------------------------------------
(* urlparse, as far as is_valid_udp_endpoint uses it *)

\* index of the first character of s at or after k that is in cs; 0 if none
FirstOf(s, cs, k) ==
    LET hits == { j \in k..Len(s) : SubSeq(s, j, j) \in cs }
    IN  IF hits = {} THEN 0
        ELSE CHOOSE j \in hits : \A m \in hits : j <= m

\* the netloc of "scheme://netloc/path?query#fragment"
Netloc(url) ==
    LET from == FirstOf(url, {":"}, 1) + 3
        stop == FirstOf(url, {"/", "?", "#"}, from)
    IN  IF FirstOf(url, {":"}, 1) = 0 \/ from - 1 > Len(url)
           \/ SubSeq(url, from - 2, from - 1) # "//"
        THEN ""
        ELSE IF stop = 0 THEN SubSeq(url, from, Len(url))
        ELSE SubSeq(url, from, stop - 1)

\* parsed_url.hostname: the netloc up to the port separator ("" stands for
\* the None urlparse gives for an empty host: both are falsy)
Hostname(url) ==
    LET loc == Netloc(url)
        colon == FirstOf(loc, {":"}, 1)
        host == IF colon = 0 THEN loc ELSE SubSeq(loc, 1, colon - 1)
    IN  host

\* parsed_url.hostname of every tracker string explored
parsed_hostname == [ url \in Universe \cup UniverseOfParsing |-> Hostname(url) ]

\* whether the netloc names a port (parsed_url.port is not None)
HasPort(url) ==
    LET loc == Netloc(url)
        colon == FirstOf(loc, {":"}, 1)
    IN  colon # 0 /\ colon < Len(loc)

\* the text after the port separator
PortText(url) ==
    LET loc == Netloc(url)
    IN  SubSeq(loc, FirstOf(loc, {":"}, 1) + 1, Len(loc))

Digits == << "0", "1", "2", "3", "4", "5", "6", "7", "8", "9" >>

\* str.isdigit, for ASCII text
IsDigits(s) ==
    Len(s) > 0 /\ \A j \in 1..Len(s) : \E d \in 1..10 : SubSeq(s, j, j) = Digits[d]

RECURSIVE ParseInt(_)
\* int(port) for a string of digits; every value above the port range is
\* given as 65536
ParseInt(s) ==
    IF Len(s) = 0 THEN 0
    ELSE LET n == ParseInt(SubSeq(s, 1, Len(s) - 1)) * 10
                    + (CHOOSE d \in 1..10 : SubSeq(s, Len(s), Len(s)) = Digits[d]) - 1
         IN  IF n > 65535 THEN 65536 ELSE n

\* parsed_url.port raises ValueError: a port that is no number or is out of
\* range
PortRaises(url) ==
    /\ HasPort(url)
    /\ \/ ~ IsDigits(PortText(url))
       \/ ParseInt(PortText(url)) > 65535

\* tracker_port after the default is applied
TrackerPortDefault80(url) == IF HasPort(url) THEN ParseInt(PortText(url)) ELSE 80

\* tracker_port after `if tracker_port is None: tracker_port = 6969`
TrackerPort(url) == IF HasPort(url) THEN ParseInt(PortText(url)) ELSE 6969

\* whether parsed_url.port raises, for every tracker string explored
parsed_port_raises ==
    [ url \in Universe \cup UniverseOfParsing |-> PortRaises(url) ]

\* the (tracker_host, tracker_port) handed to sendto, for every tracker string
\* explored that parses
sendto_address ==
    [ url \in { u \in Universe \cup UniverseOfParsing : ~ PortRaises(u) } |->
        << Hostname(url), TrackerPort(url) >> ]

-----------------------------------------------------------------------------
(* The probes' verdicts *)

\* is_bencoded with len(content) >= 2
IsBencodedFromTwo(content) ==
    Len(content) >= 2 /\ Startswith(content, "d") /\ Endswith(content, "e")

\* is_valid_http_tracker: is_bencoded
IsBencoded(content) ==
    Len(content) > 2 /\ Startswith(content, "d") /\ Endswith(content, "e")

\* the checks without the comparison of transaction ids
ValidateResponseAnyId(response, transaction_id) ==
    IF Len(response) < 16 THEN "too short"
    ELSE IF UnpackResponse(response).resp_action # 0 THEN "unexpected action"
    ELSE "valid"

\* is_valid_udp_endpoint: the checks on the bytes recvfrom returned; the log
\* line emitted, or "valid"
ValidateResponse(response, transaction_id) ==
    IF Len(response) < 16 THEN "too short"
    ELSE IF UnpackResponse(response).resp_action # 0 THEN "unexpected action"
    ELSE IF UnpackResponse(response).resp_transaction_id # transaction_id
         THEN "mismatched transaction ID"
    ELSE "valid"

-----------------------------------------------------------------------------
(* Futures and probe locals *)

\* a future's result: the tuple test_tracker returned, or the exception it raised
Returned(tracker, is_valid, response_time) ==
    [ raised |-> FALSE, tracker |-> tracker, is_valid |-> is_valid,
      response_time |-> response_time ]

Raised == [ raised |-> TRUE, tracker |-> "", is_valid |-> FALSE,
            response_time |-> None ]

\* a future that is not done has neither
Unset == [ raised |-> FALSE, tracker |-> "", is_valid |-> FALSE,
          response_time |-> None ]

\* a task as executor.submit leaves it
NewTask ==
    [ state |-> "pending",       \* pending, running, finished
      at |-> "-",                \* where the probe is blocked
      sock |-> "none",           \* udp_socket: none, open, closed
      sent |-> 0,                \* datagrams sent
      address |-> None,          \* the (host, port) sendto was called with
      received |-> 0,            \* datagrams taken from the socket
      transaction_id |-> None,   \* None, or <<id>> once drawn
      datagram |-> None,         \* the datagram the network delivered
      response |-> None,         \* recvfrom's bytes, or the HTTP response
                                 \* as <<status_code, content>>
      udp_calls |-> 0,           \* calls of is_valid_udp_endpoint
      http_calls |-> 0,          \* calls of is_valid_http_tracker
      requests |-> 0,            \* HTTP requests put on the wire
      outcome |-> Unset ]

Indices == 1..Len(trackers)

Submitted == 1..submitted

Running == { i \in Submitted : tasks[i].state = "running" }

Finished == { i \in Submitted : tasks[i].state = "finished" }

\* the probe of task i returns or raises: its locals die, its future completes
Complete(t, outcome) ==
    [ t EXCEPT !.state = "finished", !.at = "-", !.transaction_id = None,
               !.datagram = None, !.response = None, !.outcome = outcome ]

\* the finally clause: udp_socket.close()
Closed(t) == [ t EXCEPT !.sock = "closed" ]


-----------------------------------------------------------------------------
(* Initial states: main has fetched the tracker list *)

RECURSIVE DistinctSeqs(_, _)
\* the duplicate-free lists over S of length at most n
DistinctSeqs(S, n) ==
    IF n = 0 THEN { <<>> }
    ELSE LET shorter == DistinctSeqs(S, n - 1)
         IN  shorter \cup
             { Append(s, x) : <<s, x>> \in
                 { p \in shorter \X S : \A k \in 1..Len(p[1]) : p[1][k] # p[2] } }

\* the state main is in once it holds the list all_trackers
Fetched(all_trackers) ==
    /\ trackers = all_trackers
    /\ max_workers \in PoolSizes
    /\ max_response \in { <<MAX_RESPONSE_TIME_MS>>, None }
    /\ pc = "main"
    /\ submitted = 0
    /\ tasks = [ i \in 1..Len(trackers) |-> NewTask ]
    /\ yielded = {}
    /\ valid_trackers = <<>>
    /\ valid_count = 0
    /\ progress = [ total |-> 0, completed |-> 0, valid |-> 0 ]
    /\ error_log = 0
    /\ output = [ console |-> "-", file |-> None, summary |-> None ]

Init == \E all_trackers \in DistinctSeqs(Universe, MaxTrackers) :
            Fetched(all_trackers)

InitOfParsing == \E all_trackers \in DistinctSeqs(UniverseOfParsing, MaxTrackers) :
                     Fetched(all_trackers)

coordinator_vars ==
    <<pc, submitted, yielded, valid_trackers, valid_count, progress, error_log, output>>

config_vars == <<trackers, max_workers, max_response>>

-----------------------------------------------------------------------------
(* Worker threads: test_tracker and the probes *)

\* the oldest queued work item taken by a thread started for it, however
\* many threads are busy
CanStartUncapped(i) ==
    /\ i \in Submitted
    /\ tasks[i].state = "pending"
    /\ \A j \in Submitted : j < i => tasks[j].state # "pending"

\* a pool thread takes the oldest queued work item, if a thread is free
CanStart(i) ==
    /\ i \in Submitted
    /\ tasks[i].state = "pending"
    /\ \A j \in Submitted : j < i => tasks[j].state # "pending"
    /\ Cardinality(Running) < max_workers

\* test_tracker with the denylist consulted after the scheme
RouteSchemeFirst(tracker) ==
    IF Startswith(tracker, "udp://") THEN "udp"
    ELSE IF Startswith(tracker, "wss://") THEN "wss"
    ELSE IF tracker \in SKIP_TRACKERS THEN "skip"
    ELSE "http"

\* test_tracker: the branch taken for a tracker string
Route(tracker) ==
    IF tracker \in SKIP_TRACKERS THEN "skip"
    ELSE IF Startswith(tracker, "udp://") THEN "udp"
    ELSE IF Startswith(tracker, "wss://") THEN "wss"
    ELSE "http"

\* test_tracker, denylisted tracker: (tracker, False, None)
Skip(i) ==
    /\ CanStart(i)
    /\ Route(trackers[i]) = "skip"
    /\ tasks' = [ tasks EXCEPT ![i] =
                    Complete(@, Returned(trackers[i], FALSE, None)) ]
    /\ UNCHANGED <<config_vars, coordinator_vars>>

\* test_tracker, wss:// tracker: logged and (tracker, False, None)
SkipWebSocket(i) ==
    /\ CanStart(i)
    /\ Route(trackers[i]) = "wss"
    /\ tasks' = [ tasks EXCEPT ![i] =
                    Complete(@, Returned(trackers[i], FALSE, None)) ]
    /\ UNCHANGED <<config_vars, coordinator_vars>>

\* the URL parses: a port that converts and a hostname
UdpParses(tracker) ==
    ~ parsed_port_raises[tracker] /\ parsed_hostname[tracker] # ""

\* is_valid_udp_endpoint, parsed_url.port raises ValueError: caught,
\* (False, None), no socket
UdpInvalidPort(i) ==
    /\ CanStart(i)
    /\ Route(trackers[i]) = "udp"
    /\ parsed_port_raises[trackers[i]]
    /\ tasks' = [ tasks EXCEPT ![i] =
                    Complete([ @ EXCEPT !.udp_calls = @ + 1 ],
                             Returned(trackers[i], FALSE, None)) ]
    /\ UNCHANGED <<config_vars, coordinator_vars>>

\* is_valid_udp_endpoint, a URL without a hostname: (False, None), no socket
UdpInvalidHostname(i) ==
    /\ CanStart(i)
    /\ Route(trackers[i]) = "udp"
    /\ ~ parsed_port_raises[trackers[i]]
    /\ parsed_hostname[trackers[i]] = ""
    /\ tasks' = [ tasks EXCEPT ![i] =
                    Complete([ @ EXCEPT !.udp_calls = @ + 1 ],
                             Returned(trackers[i], FALSE, None)) ]
    /\ UNCHANGED <<config_vars, coordinator_vars>>

\* is_valid_udp_endpoint: socket.socket(...) raises (outside any try): the
\* exception leaves is_valid_udp_endpoint and test_tracker
UdpSocketRaises(i) ==
    /\ CanStart(i)
    /\ Route(trackers[i]) = "udp"
    /\ UdpParses(trackers[i])
    /\ tasks' = [ tasks EXCEPT ![i] =
                    Complete([ @ EXCEPT !.udp_calls = @ + 1 ], Raised) ]
    /\ UNCHANGED <<config_vars, coordinator_vars>>

\* is_valid_udp_endpoint: udp_socket.settimeout(timeout) raises (ValueError
\* for a timeout out of range, OSError from the descriptor): the socket
\* exists, the try block with the finally clause is not entered yet, the
\* exception leaves is_valid_udp_endpoint and test_tracker
UdpSettimeoutRaises(i) ==
    /\ CanStart(i)
    /\ Route(trackers[i]) = "udp"
    /\ UdpParses(trackers[i])
    /\ tasks' = [ tasks EXCEPT ![i] =
                    Complete([ @ EXCEPT !.udp_calls = @ + 1, !.sock = "open" ],
                             Raised) ]
    /\ UNCHANGED <<config_vars, coordinator_vars>>

\* is_valid_udp_endpoint up to recvfrom: socket opened, request packed and
\* sent with a fresh transaction id; the thread then blocks in recvfrom
UdpSend(i) ==
    /\ CanStart(i)
    /\ Route(trackers[i]) = "udp"
    /\ UdpParses(trackers[i])
    /\ \E transaction_id \in TransactionIds :
         tasks' = [ tasks EXCEPT ![i] =
                      [ @ EXCEPT !.state = "running", !.at = "recvfrom",
                                 !.udp_calls = @ + 1, !.sock = "open",
                                 !.sent = @ + 1,
                                 !.address = sendto_address[trackers[i]],
                                 !.transaction_id = <<transaction_id>> ] ]
    /\ UNCHANGED <<config_vars, coordinator_vars>>

\* sendto raises socket.error (name resolution, unreachable network):
\* caught, (False, None), socket closed by the finally clause
UdpSendSocketError(i) ==
    /\ CanStart(i)
    /\ Route(trackers[i]) = "udp"
    /\ UdpParses(trackers[i])
    /\ tasks' = [ tasks EXCEPT ![i] =
                    Complete(Closed([ @ EXCEPT !.udp_calls = @ + 1,
                                               !.address = sendto_address[trackers[i]] ]),
                             Returned(trackers[i], FALSE, None)) ]
    /\ UNCHANGED <<config_vars, coordinator_vars>>

\* sendto raises something that is no socket.error (UnicodeError from the
\* host name's encoding): no except clause matches, the finally clause closes
\* the socket and the exception leaves test_tracker
UdpSendRaises(i) ==
    /\ CanStart(i)
    /\ Route(trackers[i]) = "udp"
    /\ UdpParses(trackers[i])
    /\ tasks' = [ tasks EXCEPT ![i] =
                    Complete(Closed([ @ EXCEPT !.udp_calls = @ + 1,
                                               !.address = sendto_address[trackers[i]] ]),
                             Raised) ]
    /\ UNCHANGED <<config_vars, coordinator_vars>>

\* recvfrom's socket.timeout with no except clause for it
UdpTimeoutUncaught(i) ==
    /\ i \in Running
    /\ tasks[i].at = "recvfrom"
    /\ tasks' = [ tasks EXCEPT ![i] = Complete(Closed(@), Raised) ]
    /\ UNCHANGED <<config_vars, coordinator_vars>>

\* recvfrom raises socket.timeout: (False, None)
UdpTimeout(i) ==
    /\ i \in Running
    /\ tasks[i].at = "recvfrom"
    /\ tasks' = [ tasks EXCEPT ![i] =
                    Complete(Closed(@), Returned(trackers[i], FALSE, None)) ]
    /\ UNCHANGED <<config_vars, coordinator_vars>>

\* recvfrom raises another socket.error (ICMP unreachable; a datagram larger
\* than the buffer where the platform reports that): (False, None)
UdpRecvSocketError(i) ==
    /\ i \in Running
    /\ tasks[i].at = "recvfrom"
    /\ tasks' = [ tasks EXCEPT ![i] =
                    Complete(Closed(@), Returned(trackers[i], FALSE, None)) ]
    /\ UNCHANGED <<config_vars, coordinator_vars>>

\* recvfrom(16) returns: response holds the datagram's first 16 bytes
UdpRecv(i) ==
    /\ i \in Running
    /\ tasks[i].at = "recvfrom"
    /\ \E datagram \in Datagrams :
         tasks' = [ tasks EXCEPT ![i] =
                      [ @ EXCEPT !.at = "validate", !.received = @ + 1,
                                 !.datagram = datagram,
                                 !.response = Recvfrom16(datagram) ] ]
    /\ UNCHANGED <<config_vars, coordinator_vars>>

\* the checks with a rejected reply answered by waiting for another one
UdpValidateRetrying(i) ==
    /\ i \in Running
    /\ tasks[i].at = "validate"
    /\ LET verdict == ValidateResponse(tasks[i].response,
                                       tasks[i].transaction_id[1])
       IN  IF verdict = "valid"
           THEN \E response_time_ms \in Times :
                  tasks' = [ tasks EXCEPT ![i] =
                               Complete(Closed(@),
                                        Returned(trackers[i], TRUE, <<response_time_ms>>)) ]
           ELSE tasks' = [ tasks EXCEPT ![i] =
                             [ @ EXCEPT !.at = "recvfrom", !.datagram = None,
                                        !.response = None ] ]
    /\ UNCHANGED <<config_vars, coordinator_vars>>

\* the checks on response, the elapsed time, the return and the finally clause
UdpValidate(i) ==
    /\ i \in Running
    /\ tasks[i].at = "validate"
    /\ LET verdict == ValidateResponse(tasks[i].response,
                                       tasks[i].transaction_id[1])
       IN  IF verdict = "valid"
           THEN \E response_time_ms \in Times :
                  tasks' = [ tasks EXCEPT ![i] =
                               Complete(Closed(@),
                                        Returned(trackers[i], TRUE, <<response_time_ms>>)) ]
           ELSE tasks' = [ tasks EXCEPT ![i] =
                             Complete(Closed(@), Returned(trackers[i], FALSE, None)) ]
    /\ UNCHANGED <<config_vars, coordinator_vars>>


\* requests.get on a URL whose scheme has no connection adapter (anything but
\* http:// and https://): InvalidSchema or MissingSchema, a RequestException,
\* raised before anything is sent; caught, (False, None)
HttpNoAdapter(i) ==
    /\ CanStart(i)
    /\ Route(trackers[i]) = "http"
    /\ ~ (Startswith(trackers[i], "http://") \/ Startswith(trackers[i], "https://"))
    /\ tasks' = [ tasks EXCEPT ![i] =
                    Complete([ @ EXCEPT !.http_calls = @ + 1 ],
                             Returned(trackers[i], FALSE, None)) ]
    /\ UNCHANGED <<config_vars, coordinator_vars>>

\* is_valid_http_tracker up to requests.get: the announce URL is built and the
\* request issued; the thread blocks until the response or the 5 s timeout
HttpRequest(i) ==
    /\ CanStart(i)
    /\ Route(trackers[i]) = "http"
    /\ Startswith(trackers[i], "http://") \/ Startswith(trackers[i], "https://")
    /\ tasks' = [ tasks EXCEPT ![i] =
                    [ @ EXCEPT !.state = "running", !.at = "get",
                               !.http_calls = @ + 1, !.requests = @ + 1 ] ]
    /\ UNCHANGED <<config_vars, coordinator_vars>>

\* requests.get raises ConnectionError, Timeout or another RequestException:
\* caught, (False, None)
HttpRequestException(i) ==
    /\ i \in Running
    /\ tasks[i].at = "get"
    /\ tasks' = [ tasks EXCEPT ![i] =
                    Complete(@, Returned(trackers[i], FALSE, None)) ]
    /\ UNCHANGED <<config_vars, coordinator_vars>>

\* requests.get raises an exception that is no RequestException: no except
\* clause matches and it leaves is_valid_http_tracker and test_tracker
HttpRaises(i) ==
    /\ i \in Running
    /\ tasks[i].at = "get"
    /\ tasks' = [ tasks EXCEPT ![i] = Complete(@, Raised) ]
    /\ UNCHANGED <<config_vars, coordinator_vars>>

\* requests.get returns a response, whatever its status
HttpResponse(i) ==
    /\ i \in Running
    /\ tasks[i].at = "get"
    /\ \E r \in Responses :
         tasks' = [ tasks EXCEPT ![i] =
                      [ @ EXCEPT !.at = "response",
                                 !.response = r ] ]
    /\ UNCHANGED <<config_vars, coordinator_vars>>

\* the elapsed time, the bencoding check and the return
HttpValidate(i) ==
    /\ i \in Running
    /\ tasks[i].at = "response"
    /\ \E response_time_ms \in Times :
         LET content == tasks[i].response[2]
             is_valid == IsBencoded(content)
         IN  tasks' = [ tasks EXCEPT ![i] =
                          Complete(@, Returned(trackers[i], is_valid,
                                               <<response_time_ms>>)) ]
    /\ UNCHANGED <<config_vars, coordinator_vars>>

-----------------------------------------------------------------------------
(* The main thread: main and process_trackers_concurrent *)

\* main: no trackers fetched ends the run; otherwise
\* process_trackers_concurrent starts: empty list, progress task, executor
MainStart ==
    /\ pc = "main"
    /\ IF trackers = <<>>
       THEN /\ pc' = "exit"
            /\ output' = [ output EXCEPT !.console = "No trackers found" ]
            /\ UNCHANGED progress
       ELSE /\ pc' = "executor"
            /\ progress' = [ total |-> Len(trackers), completed |-> 0, valid |-> 0 ]
            /\ UNCHANGED output
    /\ UNCHANGED <<config_vars, tasks, submitted, yielded, valid_trackers,
                   valid_count, error_log>>

\* executor.submit(test_tracker, tracker) for the next tracker of the list
Submit ==
    /\ pc = "executor"
    /\ submitted < Len(trackers)
    /\ submitted' = submitted + 1
    /\ UNCHANGED <<config_vars, tasks, pc, yielded, valid_trackers, valid_count,
                   progress, error_log, output>>

\* the loop body keeping every result that carries a response time
CollectResultAnyTimed(i) ==
    LET r == tasks[i].outcome
        keep == r.response_time # None
    IN  /\ valid_trackers' =
              IF keep THEN Append(valid_trackers, <<r.tracker, r.response_time[1]>>)
              ELSE valid_trackers
        /\ valid_count' = IF keep THEN valid_count + 1 ELSE valid_count
        /\ progress' = [ progress EXCEPT !.completed = @ + 1,
                                         !.valid = valid_count' ]
        /\ UNCHANGED error_log

\* the loop body counting every returned result as valid
CollectResultCountsEveryResult(i) ==
    LET r == tasks[i].outcome
        keep == r.is_valid /\ r.response_time # None
    IN  /\ valid_trackers' =
              IF keep THEN Append(valid_trackers, <<r.tracker, r.response_time[1]>>)
              ELSE valid_trackers
        /\ valid_count' = valid_count + 1
        /\ progress' = [ progress EXCEPT !.completed = @ + 1,
                                         !.valid = valid_count' ]
        /\ UNCHANGED error_log

\* the body of the as_completed loop for a future that returned a tuple
CollectResult(i) ==
    LET r == tasks[i].outcome
        keep == r.is_valid /\ r.response_time # None
    IN  /\ valid_trackers' =
              IF keep THEN Append(valid_trackers, <<r.tracker, r.response_time[1]>>)
              ELSE valid_trackers
        /\ valid_count' = IF keep THEN valid_count + 1 ELSE valid_count
        /\ progress' = [ progress EXCEPT !.completed = @ + 1,
                                         !.valid = valid_count' ]
        /\ UNCHANGED error_log

\* the except clause without progress.advance(task)
CollectExceptionNoAdvance(i) ==
    /\ error_log' = error_log + 1
    /\ UNCHANGED <<valid_trackers, valid_count, progress>>

\* the body of the loop for a future whose result() raises: logged, advanced
CollectException(i) ==
    /\ error_log' = error_log + 1
    /\ progress' = [ progress EXCEPT !.completed = @ + 1 ]
    /\ UNCHANGED <<valid_trackers, valid_count>>

\* the loop without its try/except: an exception from future.result() ends
\* process_trackers_concurrent and main
CollectUncaught(i) ==
    /\ pc = "executor"
    /\ submitted = Len(trackers)
    /\ i \in Finished \ yielded
    /\ yielded' = yielded \cup {i}
    /\ IF tasks[i].outcome.raised
       THEN pc' = "traceback" /\ UNCHANGED <<valid_trackers, valid_count,
                                              progress, error_log>>
       ELSE CollectResult(i) /\ UNCHANGED pc
    /\ UNCHANGED <<config_vars, tasks, submitted, output>>

\* one iteration of `for future in as_completed(futures)`
Collect(i) ==
    /\ pc = "executor"
    /\ submitted = Len(trackers)
    /\ i \in Finished \ yielded
    /\ yielded' = yielded \cup {i}
    /\ IF tasks[i].outcome.raised THEN CollectException(i) ELSE CollectResult(i)
    /\ UNCHANGED <<config_vars, tasks, pc, submitted, output>>

\* process_trackers_concurrent returning once everything is submitted,
\* without the loop having consumed every future
ReturnEarly ==
    /\ pc = "executor"
    /\ submitted = Len(trackers)
    /\ pc' = "returned"
    /\ UNCHANGED <<config_vars, tasks, submitted, yielded, valid_trackers,
                   valid_count, progress, error_log, output>>

\* as_completed is exhausted, the executor and the progress display are
\* left, process_trackers_concurrent returns valid_trackers
Return ==
    /\ pc = "executor"
    /\ submitted = Len(trackers)
    /\ yielded = Indices
    /\ pc' = "returned"
    /\ UNCHANGED <<config_vars, tasks, submitted, yielded, valid_trackers,
                   valid_count, progress, error_log, output>>

\* the filter with r < MAX_RESPONSE_TIME_MS
FilterStrictlyFaster(list, threshold) ==
    IF threshold = None THEN list
    ELSE SelectSeq(list, LAMBDA x : x[2] < threshold[1])

\* [(t, r) for t, r in valid_trackers if r <= MAX_RESPONSE_TIME_MS]
FilterByResponseTime(list, threshold) ==
    IF threshold = None THEN list
    ELSE SelectSeq(list, LAMBDA x : x[2] <= threshold[1])

RECURSIVE InsertByTime(_, _)
\* x put behind every entry that is not slower than it
InsertByTime(sorted, x) ==
    IF sorted = <<>> THEN <<x>>
    ELSE IF x[2] < sorted[1][2] THEN <<x>> \o sorted
    ELSE <<sorted[1]>> \o InsertByTime(Tail(sorted), x)

\* the list left in completion order
SortSkipped(list) == list

RECURSIVE SortByResponseTime(_)
\* list.sort(key=lambda x: x[1]): ascending and stable
SortByResponseTime(list) ==
    IF list = <<>> THEN <<>>
    ELSE InsertByTime(SortByResponseTime(SubSeq(list, 1, Len(list) - 1)),
                      list[Len(list)])

\* show_ping_summary: brackets, each [low, high) with high None for inf
brackets ==
    << [ low |-> 0, high |-> <<100>> ], [ low |-> 100, high |-> <<250>> ],
       [ low |-> 250, high |-> <<500>> ], [ low |-> 500, high |-> <<1000>> ],
       [ low |-> 1000, high |-> <<2000>> ], [ low |-> 2000, high |-> None ] >>

\* low <= t < high
InBracket(t, b) == b.low <= t /\ (b.high = None \/ t < b.high[1])

\* the counts taken over the entries the threshold filter keeps
DistributionAfterFilter(list) ==
    LET kept == FilterByResponseTime(list, <<MAX_RESPONSE_TIME_MS>>)
    IN  [ b \in 1..Len(brackets) |->
            Cardinality({ k \in 1..Len(kept) : InBracket(kept[k][2], brackets[b]) }) ]

\* count = len([t for t in times if low <= t < high]), for each bracket
Distribution(list) ==
    [ b \in 1..Len(brackets) |->
        Cardinality({ k \in 1..Len(list) : InBracket(list[k][2], brackets[b]) }) ]

RECURSIVE SumOfTimes(_)
\* sum(times)
SumOfTimes(list) ==
    IF list = <<>> THEN 0 ELSE list[1][2] + SumOfTimes(Tail(list))

\* f"{n/d:.0f}" for whole n and d: the quotient rounded to the nearest whole
\* number, a half going to the even one
FormatRounded(n, d) ==
    LET q == n \div d
        r == n % d
    IN  IF 2 * r < d THEN q
        ELSE IF 2 * r > d THEN q + 1
        ELSE IF q % 2 = 0 THEN q ELSE q + 1

\* what show_ping_summary prints for a list that is not empty: times is a
\* sorted copy of the response times
PingSummary(list) ==
    LET times == SortByResponseTime(list)
    IN  [ fastest |-> times[1][2],
          slowest |-> times[Len(times)][2],
          median |-> times[(Len(times) \div 2) + 1][2],
          average |-> FormatRounded(SumOfTimes(list), Len(list)),
          distribution |-> Distribution(list) ]

\* show_ping_summary(valid_trackers): returns at once for an empty list, else
\* prints the summary; the list is not changed
ShowPingSummary ==
    /\ pc = "returned"
    /\ output' = [ output EXCEPT !.summary =
                     IF Len(valid_trackers) = 0 THEN None
                     ELSE << PingSummary(valid_trackers) >> ]
    /\ pc' = "filter"
    /\ UNCHANGED <<config_vars, tasks, submitted, yielded, valid_trackers,
                   valid_count, progress, error_log>>

\* main: the threshold filter
Filter ==
    /\ pc = "filter"
    /\ valid_trackers' = FilterByResponseTime(valid_trackers, max_response)
    /\ pc' = "sort"
    /\ UNCHANGED <<config_vars, tasks, submitted, yielded, valid_count, progress,
                   error_log, output>>

\* main: valid_trackers.sort(key=lambda x: x[1])
Sort ==
    /\ pc = "sort"
    /\ valid_trackers' = SortByResponseTime(valid_trackers)
    /\ pc' = "write"
    /\ UNCHANGED <<config_vars, tasks, submitted, yielded, valid_count, progress,
                   error_log, output>>

\* the URLs of the list, as '\n\n'.join writes them: one after the other
Urls(list) == [ k \in 1..Len(list) |-> list[k][1] ]

\* OUTPUT_FILE opened and written whatever the list holds
WriteOutputAlways(list) ==
    [ console |-> IF Len(list) > 0 THEN "Done" ELSE "No valid trackers found",
      file |-> << Urls(list) >> ]

\* main: `if valid_trackers:` the URLs are written to OUTPUT_FILE and "Done"
\* is printed, else "No valid trackers found" is printed and no file is
\* opened; file is None or <<the URLs written>>
WriteOutput(list) ==
    IF Len(list) > 0
    THEN [ console |-> "Done", file |-> << Urls(list) >> ]
    ELSE [ console |-> "No valid trackers found", file |-> None ]

\* main: the URLs written to OUTPUT_FILE, or the "No valid trackers" message
Write ==
    /\ pc = "write"
    /\ output' = [ summary |-> output.summary ] @@ WriteOutput(valid_trackers)
    /\ pc' = "done"
    /\ UNCHANGED <<config_vars, tasks, submitted, yielded, valid_trackers,
                   valid_count, progress, error_log>>

-----------------------------------------------------------------------------

Next ==
    \/ MainStart
    \/ Submit
    \/ \E i \in Indices : Skip(i)
    \/ \E i \in Indices : SkipWebSocket(i)
    \/ \E i \in Indices : UdpInvalidPort(i)
    \/ \E i \in Indices : UdpInvalidHostname(i)
    \/ \E i \in Indices : UdpSocketRaises(i)
    \/ \E i \in Indices : UdpSettimeoutRaises(i)
    \/ \E i \in Indices : UdpSend(i)
    \/ \E i \in Indices : UdpSendSocketError(i)
    \/ \E i \in Indices : UdpSendRaises(i)
    \/ \E i \in Indices : UdpTimeout(i)
    \/ \E i \in Indices : UdpRecvSocketError(i)
    \/ \E i \in Indices : UdpRecv(i)
    \/ \E i \in Indices : UdpValidate(i)
    \/ \E i \in Indices : HttpNoAdapter(i)
    \/ \E i \in Indices : HttpRequest(i)
    \/ \E i \in Indices : HttpRequestException(i)
    \/ \E i \in Indices : HttpRaises(i)
    \/ \E i \in Indices : HttpResponse(i)
    \/ \E i \in Indices : HttpValidate(i)
    \/ \E i \in Indices : Collect(i)
    \/ Return
    \/ ShowPingSummary
    \/ Filter
    \/ Sort
    \/ Write

Spec == Init /\ [][Next]_vars

\* every thread that can run is eventually scheduled, and every blocking
\* network call ends (reply, error or its own timeout)
FairSpec == Spec /\ WF_vars(Next)

\* the runs over the tracker strings of UniverseOfParsing
ParsingSpec == InitOfParsing /\ [][Next]_vars


-----------------------------------------------------------------------------
(* Vocabulary of the properties *)

IsRaised(i) == tasks[i].state = "finished" /\ tasks[i].outcome.raised

IsReturned(i) == tasks[i].state = "finished" /\ ~ tasks[i].outcome.raised

\* the probe of i ended valid, with a response time
IsValid(i) == IsReturned(i) /\ tasks[i].outcome.is_valid

\* the entry the coordinator holds for a valid i
Entry(i) == << trackers[i], tasks[i].outcome.response_time[1] >>

\* list holds the entry of i, and no other entry under its URL
Listed(i, list) ==
    /\ IsValid(i)
    /\ \E k \in 1..Len(list) : list[k] = Entry(i)
    /\ \A k \in 1..Len(list) : list[k][1] = trackers[i] => list[k] = Entry(i)

\* list holds no entry under the URL of i
Unlisted(i, list) == \A k \in 1..Len(list) : list[k][1] # trackers[i]

Entries(list) == { list[k] : k \in 1..Len(list) }

\* the response time passes the configured threshold
WithinThreshold(r) == max_response = None \/ r <= max_response[1]

\* process_trackers_concurrent has returned to main
AfterReturn == pc \in { "returned", "filter", "sort", "write", "done" }

-----------------------------------------------------------------------------
(* C1: for every duplicate-free tracker list and every pool size, if every
   probe eventually finishes, process_trackers_concurrent eventually returns,
   and at its return every submitted tracker has been consumed by the
   as_completed loop exactly once: the progress count equals the number of
   trackers, whatever number of probes failed or raised. *)
RunAllReturnsWithEveryTrackerConsumed ==
    /\ (Len(trackers) > 0) => <>(pc = "returned")
    /\ [](pc = "returned" =>
            /\ submitted = Len(trackers)
            /\ yielded = Indices
            /\ \A i \in Indices : tasks[i].state = "finished"
            /\ progress.completed = Len(trackers)
            /\ progress.total = Len(trackers))

\* a run of two trackers has returned, one probe having raised and one failed
RunAllReturnedAfterFailures ==
    /\ pc = "returned"
    /\ Len(trackers) = 2
    /\ progress.completed = 2
    /\ \E i, j \in Indices : IsRaised(i) /\ IsReturned(j) /\ ~ IsValid(j)

(* C2: a probe that raises does not stop the run or its siblings: once a
   probe has raised, the run is never stuck short of its end, the as_completed
   loop still consumes every other probe, each of them has completed when
   process_trackers_concurrent returns, and each one's own result decides
   whether it is in valid_trackers. *)
RaisingProbeLeavesSiblingsAlone ==
    \A i \in Indices : IsRaised(i) =>
        /\ pc = "done" \/ ENABLED Next
        /\ pc # "traceback"
        /\ AfterReturn => \A j \in Indices \ {i} :
                             tasks[j].state = "finished" /\ j \in yielded
        /\ pc \in { "executor", "returned", "filter" } =>
              \A j \in yielded \ {i} :
                  IF IsValid(j) THEN Listed(j, valid_trackers)
                  ELSE Unlisted(j, valid_trackers)

\* a run has returned in which one probe raised and its sibling was found valid
RaisedBesideValidSibling ==
    /\ pc = "returned"
    /\ \E i, j \in Indices :
          IsRaised(i) /\ IsValid(j) /\ valid_trackers = << Entry(j) >>

DenylistedTrackerNeverProbed ==
    \A i \in Indices : trackers[i] \in SKIP_TRACKERS =>
        /\ tasks[i].udp_calls = 0 /\ tasks[i].http_calls = 0
        /\ tasks[i].sock = "none" /\ tasks[i].sent = 0 /\ tasks[i].requests = 0
        /\ tasks[i].state # "running"
        /\ tasks[i].state = "finished" =>
              tasks[i].outcome = Returned(trackers[i], FALSE, None)

\* test_tracker has returned for a denylisted udp:// tracker
DenylistedTrackerDispatched ==
    \E i \in Indices :
        /\ trackers[i] \in SKIP_TRACKERS
        /\ Startswith(trackers[i], "udp://")
        /\ tasks[i].state = "finished"


(* C5: test_tracker routes by scheme: udp:// to is_valid_udp_endpoint,
   http:// and https:// to is_valid_http_tracker, and a tracker of any other
   scheme (wss, ws, anything else) gets (tracker, False, None) at once, no
   prober called and nothing put on the network. *)
OtherSchemesNeverReachProber ==
    \A i \in Indices :
        tasks[i].state # "pending" /\ trackers[i] \notin SKIP_TRACKERS =>
            IF Startswith(trackers[i], "udp://")
            THEN tasks[i].udp_calls = 1 /\ tasks[i].http_calls = 0
            ELSE IF Startswith(trackers[i], "http://")
                    \/ Startswith(trackers[i], "https://")
            THEN tasks[i].http_calls = 1 /\ tasks[i].udp_calls = 0
            ELSE /\ tasks[i].udp_calls = 0 /\ tasks[i].http_calls = 0
                 /\ tasks[i].sent = 0 /\ tasks[i].requests = 0
                 /\ tasks[i].outcome = Returned(trackers[i], FALSE, None)

-----------------------------------------------------------------------------
(* Vocabulary of the probe properties *)

\* test_tracker returns for tracker i in this step, through the UDP prober
UdpProbeReturns(i) ==
    /\ Route(trackers[i]) = "udp"
    /\ tasks[i].state # "finished"
    /\ tasks'[i].state = "finished"
    /\ ~ tasks'[i].outcome.raised

\* the action and transaction id fields of a datagram of 16 bytes or more
DatagramAction(d) == Unpack32(SubSeq(d, 1, 4))

DatagramTransactionId(d) == Unpack32(SubSeq(d, 5, 8))

\* a reply datagram has arrived whose first 16 bytes are a connect reply to
\* this probe's request
GoodReplyArrived(i) ==
    /\ tasks[i].at = "validate"
    /\ Len(tasks[i].datagram) >= 16
    /\ DatagramAction(tasks[i].datagram) = 0
    /\ DatagramTransactionId(tasks[i].datagram) = tasks[i].transaction_id[1]

\* a result without a response time, or a valid one with a response time
TimedIffValid(r) ==
    IF r.is_valid THEN r.response_time # None ELSE r.response_time = None

(* C6, as stated: the UDP probe returns valid exactly when a reply datagram
   arrived in time that is exactly 16 bytes long, has action 0 and carries the
   transaction id of this probe's request. *)
UdpValidIffReplyOfExactly16Bytes ==
    [][ \A i \in Indices : UdpProbeReturns(i) =>
          (tasks'[i].outcome.is_valid
              <=> GoodReplyArrived(i) /\ Len(tasks[i].datagram) = 16) ]_vars

(* C6, amended: the UDP probe returns valid exactly when a reply datagram
   arrived in time that is at least 16 bytes long and whose first 16 bytes,
   the only ones recvfrom(16) hands over, have action 0 and the transaction
   id of this probe's request.  A reply with another action, one shorter than
   16 bytes, a mismatched transaction id, a timeout or a socket error gives
   not valid without a response time. *)
UdpValidIffFirst16BytesMatch ==
    [][ \A i \in Indices : UdpProbeReturns(i) =>
          /\ tasks'[i].outcome.is_valid <=> GoodReplyArrived(i)
          /\ TimedIffValid(tasks'[i].outcome)
          /\ tasks'[i].outcome.tracker = trackers[i] ]_vars

\* a UDP probe has taken a datagram from its socket and returned valid
UdpProbeAcceptedReply ==
    \E i \in Indices :
        /\ tasks[i].received = 1
        /\ IsValid(i)
        /\ tasks[i].sock = "closed"

(* C7: when requests.get returns a response, the HTTP probe is valid exactly
   when the body is longer than 2 bytes, starts with 'd' and ends with 'e',
   whatever the status code: "de", "abc" and "" are not valid, "d...e" is. *)
HttpValidIffBodyLooksBencoded ==
    [][ \A i \in Indices :
          tasks[i].at = "response" /\ tasks'[i].state = "finished" =>
              LET body == tasks[i].response[2]
              IN  /\ ~ tasks'[i].outcome.raised
                  /\ tasks'[i].outcome.is_valid <=>
                        /\ Len(body) > 2
                        /\ Head(body) = "d"
                        /\ SubSeq(body, Len(body), Len(body)) = "e"
                  /\ body \in { "", "de", "abc" } => ~ tasks'[i].outcome.is_valid ]_vars

\* an HTTP probe has returned valid
HttpProbeFoundBencodedBody ==
    \E i \in Indices :
        IsValid(i) /\ tasks[i].http_calls = 1 /\ tasks[i].requests = 1

(* C8: the final list holds exactly the trackers whose probe returned valid
   and whose response time is within the threshold (when one is set), each
   once and with that probe's own response time; no such tracker is lost in
   the concurrent collection and no invalid, skipped, unsupported or raising
   tracker appears. *)
FinalListIsExactlyTheValidWithinThreshold ==
    pc \in { "write", "done" } =>
        /\ \A i \in Indices :
              IF IsValid(i) /\ WithinThreshold(tasks[i].outcome.response_time[1])
              THEN Listed(i, valid_trackers)
              ELSE Unlisted(i, valid_trackers)
        /\ Len(valid_trackers) =
              Cardinality({ i \in Indices :
                  IsValid(i) /\ WithinThreshold(tasks[i].outcome.response_time[1]) })

\* the run of the UDP tracker answering in 40 ms beside the HTTP tracker whose
\* body is not bencoded has ended with the UDP tracker alone
FinalListOfTheExampleRun ==
    /\ pc = "done"
    /\ trackers = << "udp://tracker.example:1337/announce",
                     "http://bad.example/announce" >>
    /\ IsReturned(2) /\ ~ IsValid(2) /\ tasks[2].requests = 1
    /\ valid_trackers = << << "udp://tracker.example:1337/announce", 40 >> >>

(* C9: with the threshold set to 750 the filter drops every entry slower than
   750 ms and keeps every entry at or below it, 750 itself included; with the
   threshold None it drops nothing. *)
FilterKeepsUpToThreshold ==
    [][ pc = "filter" /\ pc' = "sort" =>
          /\ max_response # None =>
                /\ max_response[1] = MAX_RESPONSE_TIME_MS
                /\ Entries(valid_trackers') =
                      { x \in Entries(valid_trackers) : x[2] <= MAX_RESPONSE_TIME_MS }
                /\ \A x \in Entries(valid_trackers) :
                      /\ x[2] = MAX_RESPONSE_TIME_MS => x \in Entries(valid_trackers')
                      /\ x[2] > MAX_RESPONSE_TIME_MS => x \notin Entries(valid_trackers')
                /\ Len(valid_trackers') = Cardinality(Entries(valid_trackers'))
          /\ max_response = None => valid_trackers' = valid_trackers ]_vars

\* the filter has kept an entry at exactly the threshold and dropped a slower one
FilterKeptEqualDroppedSlower ==
    /\ pc = "sort"
    /\ max_response # None
    /\ \E i, j \in Indices :
          /\ IsValid(i) /\ tasks[i].outcome.response_time[1] = MAX_RESPONSE_TIME_MS
          /\ Listed(i, valid_trackers)
          /\ IsValid(j) /\ tasks[j].outcome.response_time[1] > MAX_RESPONSE_TIME_MS
          /\ Unlisted(j, valid_trackers)

\* ascending by response time
Ascending(list) ==
    \A k \in 1..(Len(list) - 1) : list[k][2] <= list[k + 1][2]

(* C10: whatever order the probes completed in, the list main ends with is
   in ascending order of response time, and filtering and sorting it again
   returns it unchanged. *)
FinalListAscendingAndStable ==
    pc \in { "write", "done" } =>
        /\ Ascending(valid_trackers)
        /\ SortByResponseTime(FilterByResponseTime(valid_trackers, max_response))
              = valid_trackers

\* a final list of two entries with different times, the faster one being the
\* tracker submitted second
FinalListOfTwoSorted ==
    /\ pc = "done"
    /\ Len(valid_trackers) = 2
    /\ valid_trackers[1][2] < valid_trackers[2][2]
    /\ valid_trackers[1][1] = trackers[2]

-----------------------------------------------------------------------------
\* the tracker strings that do not parse: the empty string, a URL without a
\* host, a URL whose port is no number
Malformed == { "", "udp://", "udp://tracker.example:x/announce" }

(* C11: a malformed tracker string (the empty string, "udp://" without a
   host, a port that is no number) ends as (tracker, False, None): its probe
   never raises, never blocks, creates no socket, sends no datagram, names no
   sendto address and issues no HTTP request; and the datagram for a udp://
   URL with a host but no port is addressed to port 6969 of that host. *)
MalformedNeverTouchesNetworkAndPortDefaults ==
    \A i \in Indices :
        /\ trackers[i] \in Malformed =>
              /\ tasks[i].sock = "none" /\ tasks[i].sent = 0
              /\ tasks[i].address = None /\ tasks[i].requests = 0
              /\ tasks[i].received = 0
              /\ tasks[i].state # "running"
              /\ tasks[i].state = "finished" =>
                    tasks[i].outcome = Returned(trackers[i], FALSE, None)
        /\ trackers[i] = "udp://tracker.example/announce" =>
              /\ tasks[i].sent > 0 => tasks[i].address # None
              /\ tasks[i].address # None =>
                    tasks[i].address = << "tracker.example", 6969 >>

\* "udp://" has been turned away by is_valid_udp_endpoint, and the handshake
\* of the tracker without a port has been sent
MalformedTurnedAwayBesidePortlessProbe ==
    \E i, j \in Indices :
        /\ trackers[i] = "udp://"
        /\ tasks[i].state = "finished" /\ tasks[i].udp_calls = 1
        /\ trackers[j] = "udp://tracker.example/announce"
        /\ tasks[j].sent = 1 /\ tasks[j].address = << "tracker.example", 6969 >>

-----------------------------------------------------------------------------
(* C12: a run that ends with no valid tracker left after the filter prints
   "No valid trackers found" and opens no output file; a file is written only
   with at least one URL in it, together with "Done"; a run whose fetched
   list is empty prints "No trackers found" and returns before anything is
   submitted or probed, so the two messages tell the two cases apart. *)
NoValidAndNoCandidatesAreToldApart ==
    /\ pc = "done" =>
          /\ Len(trackers) > 0
          /\ valid_trackers = <<>> =>
                /\ output.console = "No valid trackers found"
                /\ output.file = None
          /\ valid_trackers # <<>> =>
                /\ output.console = "Done"
                /\ output.file = << Urls(valid_trackers) >>
    /\ pc = "exit" =>
          /\ trackers = <<>>
          /\ output.console = "No trackers found"
          /\ output.file = None
          /\ submitted = 0 /\ progress.total = 0
    /\ output.console = "No trackers found" <=> pc = "exit"
    /\ output.console = "No valid trackers found" =>
          pc = "done" /\ valid_trackers = <<>> /\ yielded = Indices
    /\ output.file # None => Len(output.file[1]) > 0
    /\ trackers = <<>> => pc \in { "main", "exit" }

\* a run has ended with "No valid trackers found" after its only valid
\* tracker was dropped by the filter
RunEndedWithNoValidAfterFilter ==
    /\ pc = "done"
    /\ valid_count = 1
    /\ valid_trackers = <<>>
    /\ output.console = "No valid trackers found"

-----------------------------------------------------------------------------
(* C13: every tuple test_tracker returns carries a response time if and only
   if it is valid; in particular the HTTP probe of a tracker that answered
   with a body that is no bencoded dictionary returns no response time. *)
ResponseTimePresentIffValid ==
    \A i \in Indices : IsReturned(i) => TimedIffValid(tasks[i].outcome)

-----------------------------------------------------------------------------
\* the characters of the tracker strings explored, in code-point order
CodePointOrder ==
    << ".", "/", "0", "1", "2", "3", "4", "5", "6", "7", "8", "9", ":",
       "a", "b", "c", "d", "e", "f", "g", "h", "i", "j", "k", "l", "m",
       "n", "o", "p", "q", "r", "s", "t", "u", "v", "w", "x", "y", "z" >>

CodePointRank(c) == CHOOSE k \in 1..Len(CodePointOrder) : CodePointOrder[k] = c

RECURSIVE StrLess(_, _)
\* a < b for strings: by the first character that differs, a proper prefix
\* coming first
StrLess(a, b) ==
    IF Len(b) = 0 THEN FALSE
    ELSE IF Len(a) = 0 THEN TRUE
    ELSE IF SubSeq(a, 1, 1) # SubSeq(b, 1, 1)
         THEN CodePointRank(SubSeq(a, 1, 1)) < CodePointRank(SubSeq(b, 1, 1))
    ELSE StrLess(SubSeq(a, 2, Len(a)), SubSeq(b, 2, Len(b)))

(* C14: in the list main ends with, entries of equal response time stand in
   the order of their URL strings, so that the list is the same whatever
   order the probes completed in. *)
TiesOrderedByUrl ==
    pc \in { "write", "done" } =>
        \A k \in 1..(Len(valid_trackers) - 1) :
            valid_trackers[k][2] = valid_trackers[k + 1][2] =>
                StrLess(valid_trackers[k][1], valid_trackers[k + 1][1])

-----------------------------------------------------------------------------
(* C15: no call of is_valid_udp_endpoint returns or raises with the socket
   it created still open, whichever way it ends: valid reply, short reply,
   wrong action, mismatched transaction id, timeout, socket error, or any
   other exception raised once the socket exists, the setting of its timeout
   included. *)
NoProbeEndsWithItsSocketOpen ==
    \A i \in Indices : tasks[i].state = "finished" => tasks[i].sock # "open"

-----------------------------------------------------------------------------
(* C16: a UDP probe makes one attempt: it sends at most one datagram and takes
   at most one reply from its socket; a reply that is too short, has another
   action or another transaction id ends the probe as not valid in its next
   step, with nothing further sent or received, and so does a timeout; a
   finished probe never runs again, each tracker is probed by at most one
   call, and nothing is submitted beyond one task per tracker. *)
UdpProbeIsSingleAttempt ==
    [][ /\ submitted' <= Len(trackers)
        /\ \A i \in Indices :
              /\ tasks'[i].sent <= 1 /\ tasks'[i].received <= 1
              /\ tasks'[i].udp_calls + tasks'[i].http_calls <= 1
              /\ tasks[i].state = "finished" => tasks'[i] = tasks[i]
              /\ tasks[i].at = "validate" /\ tasks'[i] # tasks[i]
                   /\ ValidateResponse(tasks[i].response,
                                       tasks[i].transaction_id[1]) # "valid"
                   => /\ tasks'[i].state = "finished"
                      /\ tasks'[i].outcome = Returned(trackers[i], FALSE, None)
                      /\ tasks'[i].sent = 1 /\ tasks'[i].received = 1
              /\ tasks[i].at = "recvfrom" /\ tasks'[i] # tasks[i]
                   /\ tasks'[i].received = 0
                   => /\ tasks'[i].state = "finished"
                      /\ tasks'[i].outcome = Returned(trackers[i], FALSE, None)
                      /\ tasks'[i].sent = 1 ]_vars

\* a run has ended in which a UDP probe got a reply, rejected it and was
\* collected as not valid after its one datagram and one reply
RejectedReplyEndedTheProbe ==
    /\ pc = "done"
    /\ \E i \in Indices :
          /\ IsReturned(i) /\ ~ tasks[i].outcome.is_valid
          /\ tasks[i].sent = 1 /\ tasks[i].received = 1

-----------------------------------------------------------------------------
\* the submitted trackers no thread has taken yet
Waiting == { i \in Submitted : tasks[i].state = "pending" }

\* a step in which a thread takes a waiting tracker
TakesTracker ==
    \E i \in Indices : tasks[i].state = "pending" /\ tasks'[i].state # "pending"

(* C17: the number of probes in progress never exceeds max_workers, however
   many trackers were submitted; a waiting tracker is taken only in a state
   where fewer than max_workers probes are in progress; and as long as fewer
   than max_workers probes are in progress a waiting tracker can be taken,
   whatever the probes in progress are blocked on. *)
ProbesInProgressNeverExceedPool ==
    /\ [](Cardinality(Running) <= max_workers)
    /\ [](Waiting # {} /\ Cardinality(Running) < max_workers
            => ENABLED (Next /\ TakesTracker))
    /\ [][ TakesTracker => Cardinality(Running) < max_workers ]_vars

\* every thread of the pool is blocked in a probe and a submitted tracker waits
PoolFullAndTrackerWaiting ==
    /\ Cardinality(Running) = max_workers
    /\ Waiting # {}

-----------------------------------------------------------------------------
(* C18: until process_trackers_concurrent returns, valid_trackers only grows
   at its end: a step either leaves it alone or appends one entry, and the
   appending step is a step of the as_completed loop consuming a finished
   future (a step of a probe never changes the list); the list never holds
   two entries under one URL; and main reads the list only after every probe
   has finished and been consumed. *)
ResultsAppendOnlyByCoordinator ==
    /\ [][ pc = "executor" =>
             \/ valid_trackers' = valid_trackers
             \/ /\ Len(valid_trackers') = Len(valid_trackers) + 1
                /\ SubSeq(valid_trackers', 1, Len(valid_trackers)) = valid_trackers
                /\ tasks' = tasks
                /\ \E i \in Finished \ yielded :
                      /\ yielded' = yielded \cup {i}
                      /\ valid_trackers'[Len(valid_trackers')] = Entry(i) ]_vars
    /\ [][ tasks' # tasks => valid_trackers' = valid_trackers ]_vars
    /\ [](\A k, l \in 1..Len(valid_trackers) :
              valid_trackers[k][1] = valid_trackers[l][1] => k = l)
    /\ [](pc \notin { "main", "exit", "executor" } =>
              /\ yielded = Indices
              /\ \A i \in Indices : tasks[i].state = "finished")
    /\ [](pc \in { "main", "exit" } => valid_trackers = <<>>)

\* process_trackers_concurrent has returned a list of two entries
TwoEntriesAppendedAndReturned ==
    /\ pc = "returned"
    /\ Len(valid_trackers) = 2

-----------------------------------------------------------------------------
(* C19: the as_completed loop advances the progress task once for every
   future it consumes, by exactly 1, whether the future holds a result or an
   exception, and nothing else advances it; the valid field shown always
   equals valid_count, which while the loop runs and at its return equals the
   number of entries in valid_trackers, never decreases and never exceeds the
   completed count; the completed count never exceeds the total, and at the
   return of process_trackers_concurrent it equals the total, the number of
   trackers. *)
ProgressAdvancesOncePerProbe ==
    /\ [][ /\ yielded' # yielded =>
                 /\ Cardinality(yielded') = Cardinality(yielded) + 1
                 /\ progress'.completed = progress.completed + 1
           /\ yielded' = yielded /\ pc # "main" => progress' = progress
           /\ progress'.valid >= progress.valid
           /\ progress'.valid <= progress.valid + 1 ]_vars
    /\ [](/\ progress.valid = valid_count
          /\ progress.completed = Cardinality(yielded)
          /\ progress.valid <= progress.completed
          /\ progress.completed <= progress.total
          /\ progress.valid = Cardinality({ i \in yielded : IsValid(i) }))
    /\ [](pc \in { "executor", "returned" } =>
              /\ valid_count = Len(valid_trackers)
              /\ progress.total = Len(trackers))
    /\ [](pc = "returned" => progress.completed = progress.total)

\* the run has returned with both futures consumed: one held an exception,
\* one a valid result
ProgressAfterOneFaultAndOneValid ==
    /\ pc = "returned"
    /\ progress = [ total |-> 2, completed |-> 2, valid |-> 1 ]
    /\ error_log = 1

-----------------------------------------------------------------------------
\* the sum of the counts of a distribution
RECURSIVE SumOfCounts(_, _)
SumOfCounts(counts, n) ==
    IF n = 0 THEN 0 ELSE counts[n] + SumOfCounts(counts, n - 1)

\* times at and on both sides of every bracket's edge
EdgeTimes == { 0, 99, 100, 101, 249, 250, 499, 500, 999, 1000, 1999, 2000, 60000 }

(* C20: show_ping_summary is given the list as process_trackers_concurrent
   returned it, before the threshold filter: its counts sum to valid_count,
   the number of valid results, also after the filter has dropped entries,
   and it counts in every bracket the entries of the unfiltered list whose
   time is in it; the step leaves valid_trackers as it is, contents and
   order; nothing is printed for an empty list; and every time from 0 on
   lies in exactly one of the six brackets. *)
SummaryCountsTheUnfilteredListOnce ==
    /\ [][ pc = "returned" =>
             /\ valid_trackers' = valid_trackers
             /\ Len(valid_trackers) = valid_count
             /\ valid_count = 0 => output'.summary = None
             /\ valid_count > 0 =>
                   /\ output'.summary # None
                   /\ \A b \in 1..6 :
                         output'.summary[1].distribution[b] =
                           Cardinality({ i \in Indices :
                               IsValid(i) /\ InBracket(Entry(i)[2], brackets[b]) }) ]_vars
    /\ [](pc \in { "main", "exit", "executor", "returned" } => output.summary = None)
    /\ [](pc \in { "filter", "sort", "write", "done" } =>
              IF valid_count = 0 THEN output.summary = None
              ELSE /\ output.summary # None
                   /\ SumOfCounts(output.summary[1].distribution, 6) = valid_count
                   /\ \A i \in Indices : IsValid(i) =>
                         Cardinality({ b \in 1..6 :
                             InBracket(Entry(i)[2], brackets[b]) }) = 1)
    /\ [](\A t \in EdgeTimes \cup Times :
              Cardinality({ b \in 1..Len(brackets) : InBracket(t, brackets[b]) }) = 1)

\* the summary counted two valid results, one of which the filter then dropped
SummaryCountedAnEntryTheFilterDropped ==
    /\ pc = "done"
    /\ output.summary # None
    /\ SumOfCounts(output.summary[1].distribution, 6) = 2
    /\ Len(valid_trackers) = 1

====
